---- MODULE Spec2Model ----
(***************************************************************************)
(* Customer Call Analyzer (src/app.py): a Flask server that analyses a     *)
(* call transcript (Groq provider or keyword fallback) and appends the     *)
(* result to a CSV log that can be downloaded.                             *)
(*                                                                         *)
(* Python strings are TLA+ strings (sequences of characters); the file     *)
(* CSV_FILE is its text content, as csv.DictWriter produces it.            *)
(***************************************************************************)
EXTENDS Integers, Sequences, FiniteSets, TLC

VARIABLES client, csv_file, request, response, calls, appended, io_errors, nreq, threads,
          text, label

vars == <<client, csv_file, request, response, calls, appended, io_errors, nreq, threads,
          text, label>>

(***************************************************************************)
(* Python built-ins used by the source.                                    *)
(***************************************************************************)
Char(s, i) == SubSeq(s, i, i)

UPPER == "ABCDEFGHIJKLMNOPQRSTUVWXYZ"

LOWER == "abcdefghijklmnopqrstuvwxyz"

WHITESPACE == {" ", "\t", "\n", "\r"}

UpperChars == {Char(UPPER, i) : i \in 1..Len(UPPER)}

ToLower == [c \in UpperChars |-> Char(LOWER, CHOOSE i \in 1..Len(UPPER) : Char(UPPER, i) = c)]

\* str.lower() of a one-character string
LowerChar(c) == IF c \in UpperChars THEN ToLower[c] ELSE c

\* str.lower(): every character lower-cased, by halves
RECURSIVE lower(_)
lower(s) ==
    IF Len(s) = 0 THEN ""
    ELSE IF Len(s) = 1 THEN LowerChar(s)
    ELSE LET m == Len(s) \div 2
         IN  lower(SubSeq(s, 1, m)) \o lower(SubSeq(s, m + 1, Len(s)))

\* str.strip(): leading and trailing whitespace removed
strip(s) ==
    IF \A i \in 1..Len(s) : Char(s, i) \in WHITESPACE THEN ""
    ELSE LET first == CHOOSE i \in 1..Len(s) :
                          /\ Char(s, i) \notin WHITESPACE
                          /\ \A j \in 1..(i - 1) : Char(s, j) \in WHITESPACE
             last  == CHOOSE i \in 1..Len(s) :
                          /\ Char(s, i) \notin WHITESPACE
                          /\ \A j \in (i + 1)..Len(s) : Char(s, j) \in WHITESPACE
         IN  SubSeq(s, first, last)

\* the operator "word in s" on two strings
contains(s, word) ==
    \E i \in 1..(Len(s) - Len(word) + 1) : SubSeq(s, i, i + Len(word) - 1) = word

(***************************************************************************)
(* Keyword fallback (KeywordSentimentClassifier).                          *)
(***************************************************************************)
POSITIVE_KEYWORDS ==
    << "thank", "thanks", "great", "excellent", "wonderful", "amazing", "perfect",
       "satisfied", "happy", "pleased", "love", "fantastic", "awesome", "good",
       "helpful", "friendly", "professional", "quick", "efficient", "resolved" >>

NEGATIVE_KEYWORDS ==
    << "terrible", "awful", "horrible", "bad", "worst", "hate", "angry", "furious",
       "frustrated", "disappointed", "unsatisfied", "complaint", "problem", "issue",
       "broken", "failed", "wrong", "error", "refund", "cancel", "unacceptable" >>

\* sum(1 for word in keywords if word in text_lower)
RECURSIVE count_keywords(_, _)
count_keywords(keywords, text_lower) ==
    IF keywords = << >> THEN 0
    ELSE (IF contains(text_lower, Head(keywords)) THEN 1 ELSE 0)
         + count_keywords(Tail(keywords), text_lower)

\* the classifier without the lower-casing of its input
fallback_case_sensitive(transcript) ==
    LET positive_count == count_keywords(POSITIVE_KEYWORDS, transcript)
        negative_count == count_keywords(NEGATIVE_KEYWORDS, transcript)
    IN  IF positive_count > negative_count THEN "Positive"
        ELSE IF negative_count > positive_count THEN "Negative"
        ELSE "Neutral"

fallback_sentiment_analysis(transcript) ==
    LET text_lower     == lower(transcript)
        positive_count == count_keywords(POSITIVE_KEYWORDS, text_lower)
        negative_count == count_keywords(NEGATIVE_KEYWORDS, text_lower)
    IN  IF positive_count > negative_count THEN "Positive"
        ELSE IF negative_count > positive_count THEN "Negative"
        ELSE "Neutral"

(***************************************************************************)
(* Python values after json.loads / request.get_json.  An atom is a string,*)
(* a number, None, a bool, a list (num copies of str) or a nested dict of  *)
(* num keys; a document is an atom or a dict over the keys the handlers    *)
(* read, with the atoms they are bound to.                                 *)
(***************************************************************************)
PyStr(s) == [type |-> "str", str |-> s, num |-> 0]

PyInt(n) == [type |-> "int", str |-> "", num |-> n]

PyNone == [type |-> "NoneType", str |-> "", num |-> 0]

PyBool(b) == [type |-> "bool", str |-> "", num |-> IF b THEN 1 ELSE 0]

PyList(elem, n) == [type |-> "list", str |-> elem, num |-> n]

PyDict(n) == [type |-> "dict", str |-> "", num |-> n]

NoFields == [transcript |-> PyNone, summary |-> PyNone, sentiment |-> PyNone]

Doc(atom) == [type |-> atom.type, str |-> atom.str, num |-> atom.num,
              keys |-> {}, fields |-> NoFields]

DocDict(keys, fields) == [type |-> "dict", str |-> "", num |-> Cardinality(keys),
                          keys |-> keys, fields |-> fields]

\* bool(v)
truthy(v) ==
    CASE v.type = "str"      -> Len(v.str) > 0
      [] v.type = "NoneType" -> FALSE
      [] OTHER               -> v.num # 0

\* "key in v" raises TypeError on a number or a bool
in_raises(v) == v.type \in {"int", "bool", "NoneType"}

\* "key in v" on a dict (its keys), a list (its elements) or a string (substring)
py_in(key, v) ==
    CASE v.type = "dict" -> key \in v.keys
      [] v.type = "list" -> v.num > 0 /\ v.str = key
      [] v.type = "str"  -> contains(v.str, key)
      [] OTHER           -> FALSE

\* dict.get(key): None when the key is absent
dict_get(d, key) == IF key \in d.keys THEN d.fields[key] ELSE PyNone

(***************************************************************************)
(* Program constants.                                                      *)
(***************************************************************************)
MinTranscriptLen == 5

ApiMinLen == 10

LongTranscriptLen == 200

MinSummaryLen == 10

TruncateLen == 500

valid_sentiments == {"Positive", "Neutral", "Negative"}

(***************************************************************************)
(* TranscriptAnalyzer.                                                     *)
(***************************************************************************)
mock_analyze_transcript(transcript) ==
    LET sentiment == fallback_sentiment_analysis(transcript)
        summary ==
            IF Len(transcript) > LongTranscriptLen
            THEN "Customer interaction regarding service inquiry. The conversation covered multiple topics and the customer expressed "
                 \o lower(sentiment) \o " feedback about the experience."
            ELSE "Brief customer contact with " \o lower(sentiment)
                 \o " outcome. Issue appears to have been addressed appropriately."
    IN  [summary |-> summary, sentiment |-> sentiment]

\* The provider call and json.loads: the call raises, or returns text that
\* is not JSON, or returns the JSON document outcome.value.
ProviderRaises == [kind |-> "raise", value |-> Doc(PyNone)]

ProviderUnparsable == [kind |-> "unparsable", value |-> Doc(PyNone)]

ProviderJson(doc) == [kind |-> "json", value |-> doc]

\* a validation that only asks for a string
sentiment_is_any_string(v) == v.type = "str"

sentiment_is_valid(v) == v.type = "str" /\ v.str \in valid_sentiments

\* the generated sentence built before the sentiment is corrected
groq_summary_before_sentiment(transcript, outcome) ==
    IF outcome.kind # "json" THEN mock_analyze_transcript(transcript)
    ELSE LET result == outcome.value IN
         IF result.type # "dict" THEN mock_analyze_transcript(transcript)
         ELSE LET given == dict_get(result, "sentiment")
                  sentiment ==
                      IF ~sentiment_is_valid(given)
                      THEN fallback_sentiment_analysis(transcript)
                      ELSE given.str
                  summary == dict_get(result, "summary")
                  generated == "Customer service interaction with "
                               \o lower(IF given.type = "str" THEN given.str ELSE "neutral")
                               \o " outcome."
              IN  IF ~truthy(summary)
                  THEN [summary |-> generated, sentiment |-> sentiment]
                  ELSE IF summary.type # "str"
                  THEN mock_analyze_transcript(transcript)
                  ELSE IF Len(strip(summary.str)) < MinSummaryLen
                  THEN [summary |-> generated, sentiment |-> sentiment]
                  ELSE [summary |-> summary.str, sentiment |-> sentiment]

analyze_transcript_with_groq(transcript, outcome) ==
    IF outcome.kind # "json" THEN mock_analyze_transcript(transcript)
    ELSE LET result == outcome.value IN
         \* result.get on anything but a dict: AttributeError
         IF result.type # "dict" THEN mock_analyze_transcript(transcript)
         ELSE LET sentiment ==
                      IF ~sentiment_is_valid(dict_get(result, "sentiment"))
                      THEN fallback_sentiment_analysis(transcript)
                      ELSE dict_get(result, "sentiment").str
                  summary == dict_get(result, "summary")
                  generated == "Customer service interaction with "
                               \o lower(sentiment) \o " outcome."
              IN  IF ~truthy(summary)
                  THEN [summary |-> generated, sentiment |-> sentiment]
                  \* .strip() on anything but a string: AttributeError
                  ELSE IF summary.type # "str"
                  THEN mock_analyze_transcript(transcript)
                  ELSE IF Len(strip(summary.str)) < MinSummaryLen
                  THEN [summary |-> generated, sentiment |-> sentiment]
                  ELSE [summary |-> summary.str, sentiment |-> sentiment]

(***************************************************************************)
(* AnalysisLogStore: csv.DictWriter in the default (excel) dialect.        *)
(***************************************************************************)
fieldnames == <<"Transcript", "Summary", "Sentiment", "Confidence">>

needs_quotes(field) ==
    \E i \in 1..Len(field) : Char(field, i) \in {",", "\"", "\r", "\n"}

\* every quote character doubled, by halves
RECURSIVE double_quotes(_)
double_quotes(s) ==
    IF Len(s) = 0 THEN ""
    ELSE IF Len(s) = 1 THEN (IF s = "\"" THEN "\"\"" ELSE s)
    ELSE LET m == Len(s) \div 2
         IN  double_quotes(SubSeq(s, 1, m)) \o double_quotes(SubSeq(s, m + 1, Len(s)))

csv_field(field) ==
    IF needs_quotes(field) THEN "\"" \o double_quotes(field) \o "\"" ELSE field

writerow(row) ==
    csv_field(row[1]) \o "," \o csv_field(row[2]) \o "," \o csv_field(row[3])
    \o "," \o csv_field(row[4]) \o "\r\n"

writeheader == writerow(fieldnames)

\* the marker added from the limit on, not past it
truncate_marks_at_limit(transcript) ==
    SubSeq(transcript, 1, IF Len(transcript) < TruncateLen THEN Len(transcript)
                          ELSE TruncateLen)
    \o (IF Len(transcript) >= TruncateLen THEN "..." ELSE "")

\* data['transcript'][:500] + ('...' if len(data['transcript']) > 500 else '')
truncate(transcript) ==
    SubSeq(transcript, 1, IF Len(transcript) < TruncateLen THEN Len(transcript)
                          ELSE TruncateLen)
    \o (IF Len(transcript) > TruncateLen THEN "..." ELSE "")

log_row(cl, data) ==
    << truncate(data.transcript), data.summary, data.sentiment,
       IF cl THEN "High" ELSE "Medium" >>

\* the header written by every call
csv_rows_always_header(cl, file_exists, data) ==
    writeheader \o writerow(log_row(cl, data))

\* what one save_to_csv call writes through its file object
csv_rows(cl, file_exists, data) ==
    (IF ~file_exists THEN writeheader ELSE "") \o writerow(log_row(cl, data))

isfile(file) == file.exists

\* open(CSV_FILE, 'a'): creates the file when it does not exist
open_append(file) == [exists |-> TRUE, content |-> file.content]

\* the file object's buffer written at close, at the end of the file
append_write(file, txt) == [exists |-> TRUE, content |-> file.content \o txt]

\* open(CSV_FILE, 'w'): creates the file or truncates it
open_write(file) == [exists |-> TRUE, content |-> ""]

\* the buffer of a file opened with 'w' written at close, at offset 0
write_at_start(file, txt) ==
    [exists |-> TRUE,
     content |-> txt \o (IF Len(file.content) > Len(txt)
                         THEN SubSeq(file.content, Len(txt) + 1, Len(file.content))
                         ELSE "")]

IoOutcomes == {"ok", "open_fails", "write_fails"}

\* the exception let through to the caller
save_to_csv_reraises(cl, file, data, io) ==
    IF io = "open_fails"
    THEN [file |-> file, written |-> FALSE, raised |-> TRUE]
    ELSE IF io = "write_fails"
    THEN [file |-> open_append(file), written |-> FALSE, raised |-> TRUE]
    ELSE [file |-> append_write(open_append(file), csv_rows(cl, isfile(file), data)),
          written |-> TRUE, raised |-> FALSE]

\* io: the file system's answer to this call.  Every exception is caught.
save_to_csv(cl, file, data, io) ==
    LET file_exists == isfile(file) IN
    IF io = "open_fails"
    THEN [file |-> file, written |-> FALSE, raised |-> FALSE]
    ELSE IF io = "write_fails"
    THEN [file |-> open_append(file), written |-> FALSE, raised |-> FALSE]
    ELSE [file |-> append_write(open_append(file), csv_rows(cl, file_exists, data)),
          written |-> TRUE, raised |-> FALSE]

(***************************************************************************)
(* Flask routes.                                                           *)
(***************************************************************************)
ErrorResponse(status, message) ==
    [status |-> status, error |-> message, transcript |-> "", summary |-> "",
     sentiment |-> "", method |-> "", attachment |-> ""]

JsonResponse(data) ==
    [status |-> 200, error |-> "", transcript |-> data.transcript,
     summary |-> data.summary, sentiment |-> data.sentiment,
     method |-> data.method, attachment |-> ""]

FileResponse(file) ==
    [status |-> 200, error |-> "", transcript |-> "", summary |-> "",
     sentiment |-> "", method |-> "", attachment |-> file.content]

InternalError == ErrorResponse(500, "Internal server error occurred.")

NoData == [transcript |-> "", summary |-> "", sentiment |-> "", method |-> ""]

Rejected(resp) == [accepted |-> FALSE, response |-> resp, data |-> NoData, calls |-> 0]

\* the provider used from the threshold on, not past it
use_api_at_threshold(cl, transcript) == cl /\ Len(transcript) >= ApiMinLen

\* if client and len(transcript) > 10
use_api(cl, transcript) == cl /\ Len(transcript) > ApiMinLen

\* analyze() up to "Prepare response": validation, routing and analysis.
\* An exception anywhere is caught by the handler's except clause (500).
analyze_request(cl, data, outcome) ==
    IF ~truthy(data)
    THEN Rejected(ErrorResponse(400, "Request must contain 'transcript' field."))
    ELSE IF in_raises(data)
    THEN Rejected(InternalError)
    ELSE IF ~py_in("transcript", data)
    THEN Rejected(ErrorResponse(400, "Request must contain 'transcript' field."))
    \* data['transcript'] on a list or a string: TypeError
    ELSE IF data.type # "dict"
    THEN Rejected(InternalError)
    \* .strip() on anything but a string: AttributeError
    ELSE IF data.fields.transcript.type # "str"
    THEN Rejected(InternalError)
    ELSE LET transcript == strip(data.fields.transcript.str) IN
         IF transcript = ""
         THEN Rejected(ErrorResponse(400, "Transcript cannot be empty."))
         ELSE IF Len(transcript) < MinTranscriptLen
         THEN Rejected(ErrorResponse(400, "Transcript too short for meaningful analysis."))
         ELSE LET analysis_result ==
                      IF use_api(cl, transcript) THEN analyze_transcript_with_groq(transcript, outcome)
                      ELSE mock_analyze_transcript(transcript)
                  response_data ==
                      [transcript |-> transcript,
                       summary    |-> analysis_result.summary,
                       sentiment  |-> analysis_result.sentiment,
                       method     |-> IF cl THEN "Groq API" ELSE "Fallback Analysis"]
              IN  [accepted |-> TRUE, response |-> JsonResponse(response_data),
                   data |-> response_data,
                   calls |-> IF use_api(cl, transcript) THEN 1 ELSE 0]

\* POST /analyze, run to completion
analyze(cl, file, data, outcome, io) ==
    LET req == analyze_request(cl, data, outcome) IN
    IF ~req.accepted
    THEN [response |-> req.response, file |-> file, calls |-> 0, accepted |-> FALSE,
          written |-> FALSE, row |-> fieldnames]
    ELSE LET saved == save_to_csv(cl, file, req.data, io) IN
         [response |-> IF saved.raised THEN InternalError ELSE req.response,
          file |-> saved.file, calls |-> req.calls, accepted |-> TRUE,
          written |-> saved.written, row |-> log_row(cl, req.data)]

\* GET /download, run to completion
download_csv(file) ==
    LET present == IF ~file.exists THEN write_at_start(open_write(file), writeheader)
                   ELSE file
    IN  [response |-> FileResponse(present), file |-> present]

(***************************************************************************)
(* State.  client: the provider client built at start-up (configured or    *)
(* not).  csv_file: CSV_FILE.  request, response: the last request of the  *)
(* sequential server and its response.  calls: provider calls made by the  *)
(* last request.  appended: the rows written so far, in order.  io_errors: *)
(* appends that met an I/O error.  threads: the requests being served      *)
(* concurrently.  text, label: the classifier's input and output.          *)
(***************************************************************************)
NoFile == [exists |-> FALSE, content |-> ""]

NotCalled == [kind |-> "none", value |-> Doc(PyNone)]

NoRequest == [op |-> "none", data |-> Doc(PyNone), outcome |-> NotCalled, io |-> "ok"]

NoResponse == ErrorResponse(0, "")

\* the classifier applied to bounded inputs
MaxPieces == 3

Pieces == {"Thank", "s", " ", "un", "satisfied", "BAD", "refund", "x"}

RECURSIVE Texts(_)
Texts(n) ==
    IF n = 0 THEN {""}
    ELSE LET shorter == Texts(n - 1)
         IN  shorter \cup {t \o p : t \in shorter, p \in Pieces}

SpecExamples ==
    { "Thank you so much, you really helped me!",
      "This is broken and I am furious, I want a refund",
      "Please update my billing address" }

InitClassify ==
    /\ client = FALSE
    /\ csv_file = NoFile
    /\ request = NoRequest
    /\ response = NoResponse
    /\ calls = 0
    /\ appended = << >>
    /\ io_errors = 0
    /\ nreq = 0
    /\ threads = << >>
    /\ text \in Texts(MaxPieces) \cup SpecExamples
    /\ label = "unset"

Classify ==
    /\ label' = fallback_sentiment_analysis(text)
    /\ UNCHANGED <<client, csv_file, request, response, calls, appended, io_errors, nreq,
                   threads, text>>

NextClassify == Classify

SpecClassify == InitClassify /\ [][NextClassify]_vars

(***************************************************************************)
(* The sequential server: requests served one after another.               *)
(***************************************************************************)
MaxRequests == 3

Analyze(data, outcome, io) ==
    /\ nreq < MaxRequests
    /\ \E r \in {analyze(client, csv_file, data, outcome, io)} :
        /\ request' = [op |-> "analyze", data |-> data,
                       outcome |-> IF r.calls = 1 THEN outcome ELSE NotCalled,
                       io |-> IF r.accepted THEN io ELSE "ok"]
        /\ response' = r.response
        /\ csv_file' = r.file
        /\ calls' = r.calls
        /\ appended' = IF r.written THEN Append(appended, r.row) ELSE appended
        /\ io_errors' = IF r.accepted /\ ~r.written THEN io_errors + 1 ELSE io_errors
    /\ nreq' = nreq + 1
    /\ UNCHANGED <<client, threads, text, label>>

Download ==
    /\ nreq < MaxRequests
    /\ \E r \in {download_csv(csv_file)} :
        /\ response' = r.response
        /\ csv_file' = r.file
    /\ request' = [NoRequest EXCEPT !.op = "download"]
    /\ calls' = 0
    /\ nreq' = nreq + 1
    /\ UNCHANGED <<client, appended, io_errors, threads, text, label>>

F100 == "Agent: one moment please while I look up the account and the order history for you, all right? +++++"

T500 == F100 \o F100 \o F100 \o F100 \o F100

MultiLine == "Agent: hi\nCustomer: \"great\", thanks"

Transcript(s) == DocDict({"transcript"}, [NoFields EXCEPT !.transcript = PyStr(s)])

Bodies ==
    { Doc(PyInt(5)), DocDict({}, NoFields), Transcript(" hey "),
      Transcript("thank"), Transcript(MultiLine), Transcript("  I want a refund, now\n") }

GoodAnswer ==
    ProviderJson(DocDict({"summary", "sentiment"},
                         [NoFields EXCEPT !.summary = PyStr("Caller asked for a refund, \"now\"."),
                                          !.sentiment = PyStr("Negative")]))

Outcomes == {ProviderRaises, GoodAnswer}

Init ==
    /\ client \in BOOLEAN
    /\ csv_file = NoFile
    /\ request = NoRequest
    /\ response = NoResponse
    /\ calls = 0
    /\ appended = << >>
    /\ io_errors = 0
    /\ nreq = 0
    /\ threads = << >>
    /\ text = ""
    /\ label = "unset"

Next ==
    \/ \E data \in Bodies, outcome \in Outcomes, io \in IoOutcomes :
           Analyze(data, outcome, io)
    \/ Download

Spec == Init /\ [][Next]_vars

(***************************************************************************)
(* One POST /analyze request, over every shape of body and of provider     *)
(* answer: the request is in flight in the initial state.                  *)
(***************************************************************************)
Absent == [type |-> "absent", str |-> "", num |-> 0]

Binding(atom) == IF atom = Absent THEN PyNone ELSE atom

Answer(sentiment, summary) ==
    DocDict({k \in {"sentiment", "summary"} :
                 (IF k = "sentiment" THEN sentiment ELSE summary) # Absent},
            [NoFields EXCEPT !.sentiment = Binding(sentiment),
                             !.summary = Binding(summary)])

AnswerSentiments ==
    { Absent, PyNone, PyStr("Positive"), PyStr("Negative"), PyStr("Neutral"),
      PyStr("Mad"), PyStr("positive"), PyInt(1), PyList("Positive", 1) }

AnswerSummaries ==
    { Absent, PyNone, PyStr(""), PyStr("ok"), PyStr("   ok      "),
      PyStr("Caller was happy."), PyStr("  The caller asked about billing.  "),
      PyInt(0), PyInt(12345), PyList("x", 0), PyList("x", 1),
      PyBool(TRUE), PyBool(FALSE), PyDict(1) }

AllOutcomes ==
    { ProviderRaises, ProviderUnparsable }
    \cup { ProviderJson(Doc(a)) :
               a \in {PyNone, PyInt(3), PyStr("Positive"), PyList("Positive", 1)} }
    \cup { ProviderJson(Answer(sentiment, summary)) :
               sentiment \in AnswerSentiments, summary \in AnswerSummaries }

T250 == "This is broken. " \o F100 \o F100 \o " I am furious, I want to cancel."

AllBodies ==
    { Doc(a) : a \in { PyNone, PyInt(0), PyInt(5), PyBool(TRUE), PyStr(""),
                      PyStr("my transcript"), PyStr("hello there"),
                      PyList("transcript", 0), PyList("transcript", 1) } }
    \cup { DocDict({}, NoFields), DocDict({"summary"}, NoFields),
           DocDict({"transcript"}, NoFields),
           DocDict({"transcript"}, [NoFields EXCEPT !.transcript = PyInt(12345)]) }
    \cup { Transcript(t) :
               t \in { "", "    ", " hey ", "thank", "\tbad issue!\n", "good refund",
                       "  Thanks, that resolved it \n", MultiLine, T250 } }

LongBodies ==
    { Transcript(t) :
          t \in { SubSeq(T500, 1, TruncateLen - 1), T500, T500 \o "!",
                  " " \o T500 \o ", \"bye\"\n" } }

InFlight ==
    { [op |-> "analyze", data |-> data, outcome |-> outcome, io |-> io] :
          data \in AllBodies, outcome \in AllOutcomes, io \in {"ok"} }
    \cup
    { [op |-> "analyze", data |-> data, outcome |-> outcome, io |-> io] :
          data \in LongBodies \cup {Transcript(MultiLine)},
          outcome \in Outcomes, io \in IoOutcomes }

HeaderOnly == download_csv(NoFile).file

InitRequest ==
    /\ client \in BOOLEAN
    /\ csv_file \in {NoFile, HeaderOnly}
    /\ request \in InFlight
    /\ response = NoResponse
    /\ calls = 0
    /\ appended = << >>
    /\ io_errors = 0
    /\ nreq = 0
    /\ threads = << >>
    /\ text = ""
    /\ label = "unset"

NextRequest ==
    /\ nreq = 0
    /\ Analyze(request.data, request.outcome, request.io)

SpecRequest == InitRequest /\ [][NextRequest]_vars

(***************************************************************************)
(* The threaded server: requests dispatched concurrently, each a thread    *)
(* that runs its handler step by step.  The steps that touch CSV_FILE are  *)
(* the existence check, the open, and the write of the buffer at close.    *)
(***************************************************************************)
NumThreads == 2

Threads == 1..NumThreads

Idle == [op |-> "none", pc |-> "start", file_exists |-> FALSE, data |-> NoData]

ConcBodies == {Transcript("hey"), Transcript("thank you"), Transcript("I want a refund")}

\* analyze(): validation and analysis, before save_to_csv
AnalyzeStart(i, body, outcome) ==
    /\ threads[i].pc = "start"
    /\ \E req \in {analyze_request(client, body, outcome)} :
        /\ threads' = [threads EXCEPT ![i] =
                          [op |-> "analyze", pc |-> IF req.accepted THEN "isfile" ELSE "done",
                           file_exists |-> FALSE, data |-> req.data]]
        /\ response' = IF req.accepted THEN response ELSE req.response
    /\ UNCHANGED <<client, csv_file, request, calls, appended, io_errors, nreq, text, label>>

\* save_to_csv: file_exists = os.path.isfile(CSV_FILE)
SaveIsFile(i) ==
    /\ threads[i].op = "analyze" /\ threads[i].pc = "isfile"
    /\ threads' = [threads EXCEPT ![i].file_exists = isfile(csv_file), ![i].pc = "open"]
    /\ UNCHANGED <<client, csv_file, request, response, calls, appended, io_errors, nreq,
                   text, label>>

\* save_to_csv: open(CSV_FILE, 'a')
SaveOpen(i) ==
    /\ threads[i].op = "analyze" /\ threads[i].pc = "open"
    /\ csv_file' = open_append(csv_file)
    /\ threads' = [threads EXCEPT ![i].pc = "write"]
    /\ UNCHANGED <<client, request, response, calls, appended, io_errors, nreq, text, label>>

\* save_to_csv: the header (if the file did not exist) and the row, written
\* when the with-block closes the file; then analyze() returns the response
SaveWrite(i) ==
    /\ threads[i].op = "analyze" /\ threads[i].pc = "write"
    /\ csv_file' = append_write(csv_file,
                                csv_rows(client, threads[i].file_exists, threads[i].data))
    /\ appended' = Append(appended, log_row(client, threads[i].data))
    /\ response' = JsonResponse(threads[i].data)
    /\ threads' = [threads EXCEPT ![i].pc = "done"]
    /\ UNCHANGED <<client, request, calls, io_errors, nreq, text, label>>

\* download_csv: os.path.exists(CSV_FILE)
DownloadExists(i) ==
    /\ threads[i].pc = "start"
    /\ threads' = [threads EXCEPT ![i] =
                      [op |-> "download", pc |-> IF csv_file.exists THEN "send" ELSE "open",
                       file_exists |-> csv_file.exists, data |-> NoData]]
    /\ UNCHANGED <<client, csv_file, request, response, calls, appended, io_errors, nreq,
                   text, label>>

\* download_csv: open(CSV_FILE, 'w')
DownloadOpen(i) ==
    /\ threads[i].op = "download" /\ threads[i].pc = "open"
    /\ csv_file' = open_write(csv_file)
    /\ threads' = [threads EXCEPT ![i].pc = "write"]
    /\ UNCHANGED <<client, request, response, calls, appended, io_errors, nreq, text, label>>

\* download_csv: the header written when the with-block closes the file
DownloadWrite(i) ==
    /\ threads[i].op = "download" /\ threads[i].pc = "write"
    /\ csv_file' = write_at_start(csv_file, writeheader)
    /\ threads' = [threads EXCEPT ![i].pc = "send"]
    /\ UNCHANGED <<client, request, response, calls, appended, io_errors, nreq, text, label>>

\* download_csv: send_from_directory
DownloadSend(i) ==
    /\ threads[i].op = "download" /\ threads[i].pc = "send"
    /\ response' = FileResponse(csv_file)
    /\ threads' = [threads EXCEPT ![i].pc = "done"]
    /\ UNCHANGED <<client, csv_file, request, calls, appended, io_errors, nreq, text, label>>

InitConc ==
    /\ client \in BOOLEAN
    /\ csv_file = NoFile
    /\ request = NoRequest
    /\ response = NoResponse
    /\ calls = 0
    /\ appended = << >>
    /\ io_errors = 0
    /\ nreq = 0
    /\ threads = [i \in Threads |-> Idle]
    /\ text = ""
    /\ label = "unset"

NextConc ==
    \E i \in Threads :
        \/ \E body \in ConcBodies, outcome \in Outcomes : AnalyzeStart(i, body, outcome)
        \/ SaveIsFile(i)
        \/ SaveOpen(i)
        \/ SaveWrite(i)
        \/ DownloadExists(i)
        \/ DownloadOpen(i)
        \/ DownloadWrite(i)
        \/ DownloadSend(i)

SpecConc == InitConc /\ [][NextConc]_vars


(***************************************************************************)
(* Reading the log back: a CSV reader for the writer's dialect, and the    *)
(* physical lines of the file.                                             *)
(***************************************************************************)
QuotesIn(s, lo, hi) == Cardinality({j \in lo..hi : Char(s, j) = "\""})

\* position i of s is outside a quoted field
Unquoted(s, i) == QuotesIn(s, 1, i - 1) % 2 = 0

RECURSIVE Sorted(_)
Sorted(S) ==
    IF S = {} THEN << >>
    ELSE LET m == CHOOSE x \in S : \A y \in S : x <= y
         IN  <<m>> \o Sorted(S \ {m})

\* the quote characters that stand for themselves: the first of each pair
RECURSIVE Undoubled(_, _, _)
Undoubled(s, lo, hi) ==
    IF lo > hi THEN ""
    ELSE IF lo = hi
    THEN (IF Char(s, lo) = "\"" /\ QuotesIn(s, 1, lo) % 2 = 0 THEN "" ELSE Char(s, lo))
    ELSE LET m == (lo + hi) \div 2
         IN  Undoubled(s, lo, m) \o Undoubled(s, m + 1, hi)

FieldValue(f) ==
    IF Len(f) >= 2 /\ Char(f, 1) = "\""
    THEN LET inner == SubSeq(f, 2, Len(f) - 1) IN Undoubled(inner, 1, Len(inner))
    ELSE f

RecordFields(rec) ==
    LET commas == Sorted({i \in 1..Len(rec) : Char(rec, i) = "," /\ Unquoted(rec, i)})
        n == Len(commas) + 1
    IN  [k \in 1..n |->
            FieldValue(SubSeq(rec, IF k = 1 THEN 1 ELSE commas[k - 1] + 1,
                                   IF k = n THEN Len(rec) ELSE commas[k] - 1))]

ReadCsv(content) ==
    LET ends == Sorted({i \in 1..(Len(content) - 1) :
                           /\ Char(content, i) = "\r"
                           /\ Char(content, i + 1) = "\n"
                           /\ Unquoted(content, i)})
    IN  [k \in 1..Len(ends) |->
            RecordFields(SubSeq(content, IF k = 1 THEN 1 ELSE ends[k - 1] + 2,
                                         ends[k] - 1))]

LineFeeds(s) == Cardinality({i \in 1..Len(s) : Char(s, i) = "\n"})

\* the lines of a text file: one per line feed
Lines(content) == LineFeeds(content)

RECURSIVE LineFeedsInRows(_)
LineFeedsInRows(rows) ==
    IF rows = << >> THEN 0
    ELSE LineFeeds(Head(rows)[1]) + LineFeeds(Head(rows)[2])
         + LineFeeds(Head(rows)[3]) + LineFeeds(Head(rows)[4])
         + LineFeedsInRows(Tail(rows))

(***************************************************************************)
(* Properties of one POST /analyze request.                                *)
(***************************************************************************)
Served == request.op = "analyze" /\ response.status # 0

HasTranscript(data) ==
    data.type = "dict" /\ "transcript" \in data.keys /\ data.fields.transcript.type = "str"

Trimmed(data) == strip(data.fields.transcript.str)

\* the request carries a transcript of trimmed length at least 5
Acceptable(data) == HasTranscript(data) /\ Len(Trimmed(data)) >= 5

ShortTemplate(sentiment) ==
    "Brief customer contact with " \o sentiment
    \o " outcome. Issue appears to have been addressed appropriately."

LongTemplate(sentiment) ==
    "Customer interaction regarding service inquiry. The conversation covered multiple topics and the customer expressed "
    \o sentiment \o " feedback about the experience."

LowerName(sentiment) ==
    CASE sentiment = "Positive" -> "positive"
      [] sentiment = "Negative" -> "negative"
      [] OTHER                  -> "neutral"

\* the deterministic fallback result of a transcript
IsFallbackResult(resp, t) ==
    /\ resp.sentiment = fallback_sentiment_analysis(t)
    /\ resp.summary = IF Len(t) > 200 THEN LongTemplate(LowerName(resp.sentiment))
                      ELSE ShortTemplate(LowerName(resp.sentiment))

DefaultSentence(sentiment) ==
    "Customer service interaction with " \o LowerName(sentiment) \o " outcome."

\* C1: a request with a transcript of trimmed length >= 5 is answered 200
\* with a sentiment of the enum and a summary of at least 10 characters,
\* whatever the provider call did and whether or not a provider is configured.
C1_WellFormedResult ==
    (Served /\ Acceptable(request.data)) =>
        /\ response.status = 200
        /\ response.sentiment \in {"Positive", "Neutral", "Negative"}
        /\ Len(response.summary) >= 10

\* C1 witness: the provider returned JSON that is not an object, and the
\* request was still answered 200.
C1_Witness ==
    /\ Served /\ Acceptable(request.data) /\ calls = 1
    /\ request.outcome.kind = "json" /\ request.outcome.value.type # "dict"
    /\ response.status = 200

\* C8: the provider is called iff it is configured and the trimmed
\* transcript is longer than 10; when it is not called the result is the
\* fallback result (keyword sentiment and templated summary).
C8_ProviderRouting ==
    (Served /\ Acceptable(request.data)) =>
        /\ (calls = 1) <=> (client /\ Len(Trimmed(request.data)) > 10)
        /\ calls \in {0, 1}
        /\ (calls = 0) => IsFallbackResult(response, Trimmed(request.data))

\* C8 witness: a provider is configured, the trimmed transcript has exactly
\* 10 characters, and no provider call was made.
C8_Witness ==
    /\ Served /\ Acceptable(request.data) /\ client
    /\ Len(Trimmed(request.data)) = 10
    /\ calls = 0 /\ response.status = 200

ParsedObject ==
    /\ Served /\ Acceptable(request.data) /\ calls = 1
    /\ request.outcome.kind = "json" /\ request.outcome.value.type = "dict"

GivenSentiment == dict_get(request.outcome.value, "sentiment")

GivenSummary == dict_get(request.outcome.value, "summary")

ResolvedSentiment ==
    IF GivenSentiment.type = "str" /\ GivenSentiment.str \in {"Positive", "Neutral", "Negative"}
    THEN GivenSentiment.str
    ELSE fallback_sentiment_analysis(Trimmed(request.data))

\* the summary is absent, or None, empty, zero, false (nothing to keep)
SummaryMissing == ~truthy(GivenSummary)

SummaryShort == GivenSummary.type = "str" /\ Len(strip(GivenSummary.str)) < 10

\* C9 as stated: on a parsed object the sentiment is the provider's when
\* valid and classify(transcript) otherwise; the summary is the generated
\* sentence when missing or shorter than 10 trimmed, and the provider's
\* summary unchanged otherwise.
C9_AsStated ==
    ParsedObject =>
        /\ response.sentiment = ResolvedSentiment
        /\ response.summary =
               IF SummaryMissing \/ SummaryShort THEN DefaultSentence(ResolvedSentiment)
               ELSE GivenSummary.str
        /\ (~(SummaryMissing \/ SummaryShort)) => GivenSummary.type = "str"

\* C9 amended: as stated when the summary is missing or is a string; when
\* the summary is a non-empty value that is not a string, the whole result
\* (sentiment and summary) is the fallback result.
C9_Sanitized ==
    ParsedObject =>
        IF SummaryMissing \/ GivenSummary.type = "str"
        THEN /\ response.sentiment = ResolvedSentiment
             /\ response.summary =
                    IF SummaryMissing \/ SummaryShort
                    THEN DefaultSentence(ResolvedSentiment)
                    ELSE GivenSummary.str
        ELSE IsFallbackResult(response, Trimmed(request.data))

\* C9 witness: the provider answered sentiment "Mad" and summary "ok", and
\* both were replaced.
C9_Witness ==
    /\ ParsedObject
    /\ GivenSentiment = PyStr("Mad") /\ GivenSummary = PyStr("ok")
    /\ response.sentiment = fallback_sentiment_analysis(Trimmed(request.data))
    /\ response.summary = DefaultSentence(response.sentiment)

LastRecord == LET records == ReadCsv(csv_file.content) IN records[Len(records)]

\* C7: the Transcript field of the appended row is the first 500 characters
\* of the (trimmed) transcript followed by "..." when it is longer than 500,
\* and the transcript itself when its length is at most 500.
C7_Truncation ==
    (Served /\ response.status = 200 /\ request.io = "ok") =>
        LET t == Trimmed(request.data) IN
        LastRecord[1] = IF Len(t) > 500 THEN SubSeq(t, 1, 500) \o "..." ELSE t

\* C7 witness: a transcript longer than 500 characters was logged.
C7_Witness ==
    /\ Served /\ response.status = 200 /\ request.io = "ok"
    /\ Len(Trimmed(request.data)) > 500
    /\ Len(appended) = 1

(***************************************************************************)
(* Properties of the sequential server.                                    *)
(***************************************************************************)
MissingEmptyOrShort(data) ==
    \/ ~(data.type = "dict" /\ "transcript" \in data.keys)
    \/ HasTranscript(data) /\ Len(Trimmed(data)) < 5

\* C2: a request whose transcript is missing, empty or shorter than 5 after
\* trimming is answered 400, without a provider call and with the log file
\* left as it was.
C2_RejectedBeforeAnalysis ==
    [][ (request'.op = "analyze" /\ nreq' = nreq + 1 /\ MissingEmptyOrShort(request'.data))
        => (response'.status = 400 /\ calls' = 0 /\ csv_file' = csv_file) ]_vars

\* C6: when the append meets an I/O error the request is answered as it
\* would have been had the append succeeded: 200 with the same transcript,
\* summary, sentiment and method.
C6_AppendErrorAbsorbed ==
    (Served /\ request.io # "ok") =>
        /\ response.status = 200
        /\ response = analyze(client, csv_file, request.data, request.outcome, "ok").response

\* C6 witness: the write failed and the request was answered 200.
C6_Witness ==
    /\ Served /\ request.io = "write_fails" /\ io_errors > 0
    /\ response.status = 200 /\ response.summary # ""

\* C4 as stated: with no log file at the start, after N appends and any
\* number of downloads the file has exactly N+1 lines, the header first and
\* then the N rows in the order of the appends.
C4_AsStated ==
    (csv_file.exists /\ io_errors = 0) =>
        /\ Lines(csv_file.content) = Len(appended) + 1
        /\ ReadCsv(csv_file.content) = <<fieldnames>> \o appended

\* C4 amended: the file has exactly N+1 CSV records, the header first and
\* then the N rows in the order of the appends; it has N+1 lines plus one
\* for every line feed inside a field (a quoted field keeps its line breaks).
C4_HeaderThenRows ==
    (csv_file.exists /\ io_errors = 0) =>
        /\ ReadCsv(csv_file.content) = <<fieldnames>> \o appended
        /\ Lines(csv_file.content) = Len(appended) + 1 + LineFeedsInRows(appended)

\* C4 witness: two rows were appended and the last operation was a download.
C4_Witness ==
    /\ csv_file.exists /\ io_errors = 0
    /\ Len(appended) = 2 /\ request.op = "download"

(***************************************************************************)
(* Properties of the classifier.                                           *)
(***************************************************************************)
Matches(keywords, t) ==
    Cardinality({keywords[k] : k \in {j \in 1..Len(keywords) : contains(lower(t), keywords[j])}})

\* C3: classify(t) compares the number of distinct positive keywords with
\* the number of distinct negative keywords occurring in lower-cased t:
\* Positive when more positive, Negative when more negative, Neutral when
\* equal; the label is a function of the text, so repeated calls agree.
C3_DecisionRule ==
    label # "unset" =>
        /\ label \in {"Positive", "Neutral", "Negative"}
        /\ Matches(POSITIVE_KEYWORDS, text) > Matches(NEGATIVE_KEYWORDS, text)
               => label = "Positive"
        /\ Matches(NEGATIVE_KEYWORDS, text) > Matches(POSITIVE_KEYWORDS, text)
               => label = "Negative"
        /\ Matches(NEGATIVE_KEYWORDS, text) = Matches(POSITIVE_KEYWORDS, text)
               => label = "Neutral"

\* C3 witness: "unsatisfied" holds one keyword of each set (itself and
\* "satisfied") and is classified Neutral.
C3_Witness ==
    /\ label = "Neutral"
    /\ contains(text, "unsatisfied")
    /\ ~contains(text, "refund") /\ ~contains(text, "BAD") /\ ~contains(text, "Thank")

(***************************************************************************)
(* Properties of the threaded server.                                      *)
(***************************************************************************)
\* C5: a row that has been appended to the log file is still in the file in
\* every later state, whatever the interleaving of /analyze and /download.
C5_RowsNeverDeleted ==
    \A k \in 1..Len(appended) : contains(csv_file.content, writerow(appended[k]))

AllAnalyzeDone ==
    \A i \in Threads : threads[i].op = "analyze" /\ threads[i].pc = "done"

\* C10: when concurrent /analyze requests start with no log file, the file
\* they leave has exactly one header row, and it is the first line.
C10_HeaderWrittenOnce ==
    (AllAnalyzeDone /\ Len(appended) >= 1) =>
        LET records == ReadCsv(csv_file.content) IN
        /\ records[1] = fieldnames
        /\ Cardinality({k \in 1..Len(records) : records[k] = fieldnames}) = 1

====
